---- MODULE Spec2Model ----
(***************************************************************************)
(* DevNet Inspector: the AgentConfig record of src/main.py.                *)
(*                                                                         *)
(* A Python str is a sequence of one-character strings, so that strip()    *)
(* is computed.  A dict is a record of values together with the set `has`  *)
(* of the keys that are present.  An exception is the name of the Python   *)
(* class that is raised; "none" is a normal return.                        *)
(***************************************************************************)
EXTENDS Integers, Sequences, FiniteSets, TLC

VARIABLES input, cfg, last, snap, text, again, files

vars == <<input, cfg, last, snap, text, again, files>>

\* ------------------------------------------------------------------ bounds
\* add_target is tried while the list is shorter than MaxTargets
MaxTargets == 2

\* a mapping given to from_dict lists at most MaxEntries targets
MaxEntries == 2

\* ------------------------------------------------------- program constants
PortMin == 1
PortMax == 65535
ScanMin == 1
ScanMax == 86400
ScanDefault == 60

\* ----------------------------------------------------------------- strings
SP == " "

RECURSIVE LStrip(_)
LStrip(s) == IF s # <<>> /\ Head(s) = SP THEN LStrip(Tail(s)) ELSE s

RECURSIVE RStrip(_)
RStrip(s) ==
    IF s # <<>> /\ s[Len(s)] = SP THEN RStrip(SubSeq(s, 1, Len(s) - 1)) ELSE s

\* str.strip()
Strip(s) == RStrip(LStrip(s))

\* ------------------------------------------------------------------- enums
\* class Environment(str, Enum): the member values
EnvironmentValues == {"dev", "QA", "prod"}

\* class LogLevel(str, Enum): the member values
LogLevelValues == {"DEBUG", "INFO", "WARNING", "ERROR", "CRITICAL"}

\* A stored log level: the enum member itself (the unvalidated default) or
\* the member's value, a plain str (use_enum_values on a validated input).
LogMember(n) == [repr |-> "member", name |-> n]
LogValue(n) == [repr |-> "value", name |-> n]

\* ------------------------------------------------------------------ Target
\* the port bound with le=65535 taken as lt
PortInRangeExclusive(p) == p >= PortMin /\ p < PortMax

\* Field(ge=1, le=65535) on Target.port
PortInRange(p) == p >= PortMin /\ p <= PortMax

\* validate_host: a host that is empty after strip() is refused, the
\* stripped host is stored
HostError(h) == IF Strip(h) = <<>> THEN {"host"} ELSE {}

PortError(p) == IF PortInRange(p) THEN {} ELSE {"port"}

\* Target(host=h, port=p): `fields` are the fields the ValidationError names
\* (empty on success), `value` the Target that is built on success.
TargetNew(h, p) ==
    [fields |-> HostError(h) \cup PortError(p),
     value |-> [host |-> Strip(h), port |-> p]]

\* ------------------------------------------------------------- AgentConfig
Keys == {"environment", "scan_interval", "modules", "log_level", "targets"}

\* Field(ge=1, le=86400) on scan_interval
ScanInRange(v) == v >= ScanMin /\ v <= ScanMax

\* validate_scan_interval: TRUE when it raises
ValidateScanIntervalRaises(v) == v < 1 \/ v > 86400

\* validate_modules (after str_strip_whitespace): TRUE when it raises
ValidateModulesRaises(ms) == \E i \in 1..Len(ms) : Strip(ms[i]) = <<>>

StripAll(ms) == [i \in 1..Len(ms) |-> Strip(ms[i])]

\* cls(**config_dict) with config_dict['targets'] already a list of Target
\* objects: pydantic validates every field and collects the failures.
ModelErrors(M) ==
    (IF "environment" \notin M.has \/ M.environment \notin EnvironmentValues
        THEN {"environment"} ELSE {})
    \cup (IF "scan_interval" \in M.has
             /\ (~ScanInRange(M.scan_interval)
                 \/ ValidateScanIntervalRaises(M.scan_interval))
          THEN {"scan_interval"} ELSE {})
    \cup (IF "modules" \in M.has /\ ValidateModulesRaises(M.modules)
          THEN {"modules"} ELSE {})
    \cup (IF "log_level" \in M.has /\ M.log_level \notin LogLevelValues
          THEN {"log_level"} ELSE {})
    \cup (M.has \ Keys)

\* The instance cls(**config_dict) builds when nothing fails; a field that is
\* absent takes its default, which is not validated (log_level stays the
\* enum member LogLevel.INFO).
ModelValue(M, ts) ==
    [environment |-> M.environment,
     scan_interval |-> IF "scan_interval" \in M.has THEN M.scan_interval
                       ELSE ScanDefault,
     modules |-> IF "modules" \in M.has THEN StripAll(M.modules) ELSE <<>>,
     log_level |-> IF "log_level" \in M.has THEN LogValue(M.log_level)
                   ELSE LogMember("INFO"),
     targets |-> IF "targets" \in M.has THEN ts ELSE <<>>]

Raise(e, fs) == [err |-> e, fields |-> fs, value |-> <<>>]

Return(c) == [err |-> "none", fields |-> {}, value |-> <<c>>]

ModelNew(M, ts) ==
    IF ModelErrors(M) # {} THEN Raise("ValidationError", ModelErrors(M))
    ELSE Return(ModelValue(M, ts))

\* from_dict, lines 102-111: the entries are converted one after the other
\* and the first entry that fails ends the call.  An entry is a 2-element
\* tuple or list ("pair"), a dict with host and port ("dict"), or anything
\* else ("other").
RECURSIVE ConvertTargets(_, _)
ConvertTargets(entries, done) ==
    IF entries = <<>> THEN [err |-> "none", fields |-> {}, value |-> done]
    ELSE LET e == Head(entries)
             t == TargetNew(e.host, e.port)
         IN  IF e.shape \notin {"pair", "dict"}
                THEN [err |-> "ValueError", fields |-> {}, value |-> <<>>]
             ELSE IF t.fields # {}
                THEN [err |-> "ValidationError", fields |-> t.fields,
                      value |-> <<>>]
             ELSE ConvertTargets(Tail(entries), Append(done, t.value))

\* AgentConfig.from_dict
FromDict(M) ==
    IF "targets" \in M.has
    THEN LET c == ConvertTargets(M.targets, <<>>)
         IN  IF c.err # "none" THEN Raise(c.err, c.fields)
             ELSE ModelNew(M, c.value)
    ELSE ModelNew(M, <<>>)

\* c = AgentConfig.from_dict(M): when the call raises, nothing is bound and
\* the caller keeps what it had.
Keep(old, r) == IF r.err = "none" THEN r.value ELSE old

\* A method that raises: `value` is self as the call leaves it.
Fail(c, e, fs) == [err |-> e, fields |-> fs, value |-> <<c>>]

\* add_target without validation, and add_target appending before it
\* validates
AddTargetUnchecked(c, h, p) ==
    Return([c EXCEPT !.targets = Append(@, [host |-> h, port |-> p])])

AddTargetAppendFirst(c, h, p) ==
    LET t == TargetNew(h, p)
        d == [c EXCEPT !.targets = Append(@, t.value)]
    IN  IF t.fields # {} THEN Fail(d, "ValidationError", t.fields)
        ELSE Return(d)

\* add_target, line 154: Target(...) is built first, then appended in place
AddTargetResult(c, h, p) ==
    LET t == TargetNew(h, p)
    IN  IF t.fields # {} THEN Fail(c, "ValidationError", t.fields)
        ELSE Return([c EXCEPT !.targets = Append(@, t.value)])

\* remove_target with the host stripped before it is compared
MatchesStripped(t, h, p) == t.host = Strip(h) /\ t.port = p

\* remove_target, line 158: the host is compared as given
Matches(t, h, p) == t.host = h /\ t.port = p

RemoveFrom(ts, h, p) == SelectSeq(ts, LAMBDA t : ~Matches(t, h, p))

RemoveTargetResult(c, h, p) ==
    Return([c EXCEPT !.targets = RemoveFrom(@, h, p)])

\* validate_assignment=True: c.<field> = v validates v as the constructor
\* does and stores the validated value, or raises and stores nothing.
AssignScanInterval(c, v) ==
    IF ~ScanInRange(v) \/ ValidateScanIntervalRaises(v)
    THEN Fail(c, "ValidationError", {"scan_interval"})
    ELSE Return([c EXCEPT !.scan_interval = v])

AssignEnvironment(c, v) ==
    IF v \notin EnvironmentValues THEN Fail(c, "ValidationError", {"environment"})
    ELSE Return([c EXCEPT !.environment = v])

AssignLogLevel(c, v) ==
    IF v \notin LogLevelValues THEN Fail(c, "ValidationError", {"log_level"})
    ELSE Return([c EXCEPT !.log_level = LogValue(v)])

AssignModules(c, ms) ==
    IF ValidateModulesRaises(ms) THEN Fail(c, "ValidationError", {"modules"})
    ELSE Return([c EXCEPT !.modules = StripAll(ms)])

\* c.targets = [...]: an element is a Target object ("object", kept as it
\* is), a dict ("dict", validated into a Target) or something pydantic does
\* not turn into a Target ("pair", "other").
TargetItemOk(e) ==
    \/ e.shape = "object"
    \/ e.shape = "dict" /\ TargetNew(e.host, e.port).fields = {}

TargetItem(e) ==
    IF e.shape = "object" THEN [host |-> e.host, port |-> e.port]
    ELSE TargetNew(e.host, e.port).value

AssignTargets(c, es) ==
    IF \E i \in 1..Len(es) : ~TargetItemOk(es[i])
    THEN Fail(c, "ValidationError", {"targets"})
    ELSE Return([c EXCEPT !.targets = [i \in 1..Len(es) |-> TargetItem(es[i])]])

\* ----------------------------------------------------------- serializers
\* A document is the text of a file as its parser reads it: whether it is
\* well-formed, what its top-level node is, the keys of the top-level
\* mapping and the node under each key.  A scalar node carries its YAML tag;
\* a target element is a 2-element array or an object with host and port.
Scalar(v) == [tag |-> "str", name |-> v]

PyObject(v) == [tag |-> "python/object/apply", name |-> v]

Element(shape, t) == [shape |-> shape, host |-> t.host, port |-> t.port]

Document(fmt, c, lvl, shape) ==
    [format |-> fmt, wellformed |-> TRUE, top |-> "mapping", keys |-> Keys,
     environment |-> c.environment, scan_interval |-> c.scan_interval,
     modules |-> c.modules, log_level |-> lvl,
     targets |-> [i \in 1..Len(c.targets) |-> Element(shape, c.targets[i])]]

\* to_json with an enum member written as str() prints it
ToJsonMemberRepr(c) ==
    Document("json", c,
             Scalar(IF c.log_level.repr = "member" THEN "LogLevel.INFO"
                    ELSE c.log_level.name),
             "object")

\* to_json, line 91: model_dump_json serializes the fields itself, it does
\* not call the model_dump of lines 160-164; a Target is written as an
\* object and an enum member as its value.
ToJson(c) == Document("json", c, Scalar(c.log_level.name), "object")

\* model_dump, lines 160-164: the dict of the fields as they are stored (a
\* stored enum member stays a member), targets as [host, port] lists
ModelDump(c) ==
    [environment |-> c.environment, scan_interval |-> c.scan_interval,
     modules |-> c.modules, log_level |-> c.log_level,
     targets |-> [i \in 1..Len(c.targets) |-> Element("array", c.targets[i])]]

\* yaml.dump of one value of the dict: a str is a plain scalar, an object
\* that is not of a built-in type (an Enum member) is written with a
\* python/object/apply tag.
YamlScalar(v) == IF v.repr = "member" THEN PyObject(v.name) ELSE Scalar(v.name)

\* to_yaml, lines 95-97
ToYaml(c) ==
    LET d == ModelDump(c)
    IN  [format |-> "yaml", wellformed |-> TRUE, top |-> "mapping",
         keys |-> Keys, environment |-> d.environment,
         scan_interval |-> d.scan_interval, modules |-> d.modules,
         log_level |-> YamlScalar(d.log_level),
         targets |-> [i \in 1..Len(c.targets) |->
                         Element("array", c.targets[i])]]

\* The dict a parser builds from a well-formed top-level mapping: an array
\* of two elements is a list (a "pair" for from_dict), an object is a dict.
Parsed(doc) ==
    [has |-> doc.keys, environment |-> doc.environment,
     scan_interval |-> doc.scan_interval, modules |-> doc.modules,
     log_level |-> doc.log_level.name,
     targets |-> [i \in 1..Len(doc.targets) |->
                    [shape |-> IF doc.targets[i].shape = "array" THEN "pair"
                               ELSE IF doc.targets[i].shape = "object"
                               THEN "dict" ELSE "other",
                     host |-> doc.targets[i].host,
                     port |-> doc.targets[i].port]]]

\* json.load / json.loads: `err` is what it raises, `top` the type of the
\* value it returns
JsonLoad(doc) ==
    IF ~doc.wellformed \/ doc.format # "json"
    THEN [err |-> "JSONDecodeError", top |-> "", value |-> Parsed(doc)]
    ELSE [err |-> "none", top |-> doc.top, value |-> Parsed(doc)]

\* yaml.safe_load: the safe constructor knows no python/ tag
YamlSafeLoad(doc) ==
    IF ~doc.wellformed
    THEN [err |-> "ScannerError", top |-> "", value |-> Parsed(doc)]
    ELSE IF doc.top = "mapping" /\ "log_level" \in doc.keys
            /\ doc.log_level.tag # "str"
    THEN [err |-> "ConstructorError", top |-> "", value |-> Parsed(doc)]
    ELSE [err |-> "none", top |-> doc.top, value |-> Parsed(doc)]

\* cls.from_dict(config_dict) on what a parser returned: a value that is no
\* dict ends in a TypeError ('targets' in None, cls(**[...]))
FromParsed(r) ==
    IF r.err # "none" THEN Raise(r.err, {})
    ELSE IF r.top # "mapping" THEN Raise("TypeError", {})
    ELSE FromDict(r.value)

\* ------------------------------------------------------------------ inputs
Mapping(has, env, scan, mods, log, ts) ==
    [has |-> has, environment |-> env, scan_interval |-> scan,
     modules |-> mods, log_level |-> log, targets |-> ts]

NoMapping == Mapping({}, "", 0, <<>>, "", <<>>)

Entry(shape, h, p) == [shape |-> shape, host |-> h, port |-> p]

HostInputs == {<<"h">>, <<SP, "h">>, <<SP>>}

PortInputs == {PortMin - 1, PortMin, PortMax, PortMax + 1}

ScanInputs == {ScanMin - 1, ScanMin, ScanMax, ScanMax + 1}

EnvironmentInputs == {"dev", "qa", "QA", "prod", "invalid_env"}

LogLevelInputs == {"DEBUG", "INFO", "TRACE"}

ModulesInputs == {<<>>, <<<<"m">>>>, <<<<SP, "m">>>>, <<<<"m">>, <<SP>>>>}

\* the mapping of main(), line 171, cut to the model's strings
MainMapping ==
    Mapping(Keys, "dev", ScanDefault, <<<<"m">>>>, "DEBUG",
            <<Entry("pair", <<"h">>, PortMin)>>)

\* the mappings the lifecycle constructs from
LifecycleMappings ==
    {Mapping({"environment"}, "dev", 0, <<>>, "", <<>>),
     MainMapping,
     [MainMapping EXCEPT !.environment = "QA",
                         !.targets = <<Entry("dict", <<SP, "g">>, PortMax)>>],
     [MainMapping EXCEPT !.scan_interval = ScanMax + 1],
     [MainMapping EXCEPT !.targets = <<Entry("pair", <<"h">>, PortMin),
                                       Entry("other", <<>>, 0)>>]}

TargetsInputs ==
    {<<>>,
     <<Entry("object", <<"g">>, PortMax)>>,
     <<Entry("dict", <<SP, "h">>, PortMin)>>,
     <<Entry("dict", <<"h">>, PortMin), Entry("dict", <<SP>>, PortMin)>>,
     <<Entry("pair", <<"h">>, PortMin)>>}

\* ------------------------------------------------------------------- state
NoPath == <<"", "">>

\* the last call: `made` counts the instances it returned
Last(op, r, h, p, path) ==
    [op |-> op, err |-> r.err, fields |-> r.fields, host |-> h, port |-> p,
     path |-> path, after |-> "", opened |-> FALSE,
     made |-> IF op \in {"from_dict", "load"} THEN Len(r.value) ELSE 0]

\* a path is <<stem, extension>>
Paths ==
    {<<"config", ".json">>, <<"config", ".yaml">>, <<"config", ".csv">>,
     <<"locked", ".json">>}

\* the paths the process may not open for writing
ReadOnly == {<<"locked", ".json">>}

InitCommon ==
    /\ input = NoMapping
    /\ snap = <<>>
    /\ text = <<>>
    /\ again = <<>>
    /\ files = [p \in Paths |-> <<>>]

Init ==
    /\ InitCommon
    /\ cfg = FromDict(Mapping({"environment"}, "dev", 0, <<>>, "", <<>>)).value
    /\ last = Last("from_dict", Return(cfg[1]), <<>>, 0, NoPath)

\* c = AgentConfig.from_dict(M)
FromDictCall(M) ==
    LET r == FromDict(M)
    IN  /\ cfg' = Keep(cfg, r)
        /\ last' = Last("from_dict", r, <<>>, 0, NoPath)
        /\ snap' = <<>>
        /\ UNCHANGED <<input, text, again, files>>

\* c.add_target(h, p)
AddTarget(h, p) ==
    /\ cfg # <<>>
    /\ Len(cfg[1].targets) < MaxTargets
    /\ LET r == AddTargetResult(cfg[1], h, p)
       IN  /\ cfg' = r.value
           /\ last' = Last("add_target", r, h, p, NoPath)
           /\ snap' = IF r.err = "none" THEN <<cfg[1].targets>> ELSE <<>>
    /\ UNCHANGED <<input, text, again, files>>

\* c.remove_target(h, p); snap keeps the list from before an add_target(h, p)
\* that this call directly follows
RemoveTarget(h, p) ==
    /\ cfg # <<>>
    /\ LET r == RemoveTargetResult(cfg[1], h, p)
       IN  /\ cfg' = r.value
           /\ last' = Last("remove_target", r, h, p, NoPath)
    /\ snap' = IF last.op = "add_target" /\ last.err = "none"
                  /\ last.host = h /\ last.port = p
               THEN snap ELSE <<>>
    /\ UNCHANGED <<input, text, again, files>>

Assign(op, r) ==
    /\ cfg' = r.value
    /\ last' = Last(op, r, <<>>, 0, NoPath)
    /\ snap' = <<>>
    /\ UNCHANGED <<input, text, again, files>>

SetScanInterval(v) ==
    cfg # <<>> /\ Assign("set_scan_interval", AssignScanInterval(cfg[1], v))

SetEnvironment(v) ==
    cfg # <<>> /\ Assign("set_environment", AssignEnvironment(cfg[1], v))

SetLogLevel(v) ==
    cfg # <<>> /\ Assign("set_log_level", AssignLogLevel(cfg[1], v))

SetModules(ms) ==
    cfg # <<>> /\ Assign("set_modules", AssignModules(cfg[1], ms))

SetTargets(es) ==
    cfg # <<>> /\ Assign("set_targets", AssignTargets(cfg[1], es))

Next ==
    \/ \E M \in LifecycleMappings : FromDictCall(M)
    \/ \E h \in HostInputs, p \in PortInputs : AddTarget(h, p)
    \/ \E h \in HostInputs, p \in PortInputs : RemoveTarget(h, p)
    \/ \E v \in ScanInputs : SetScanInterval(v)
    \/ \E v \in EnvironmentInputs : SetEnvironment(v)
    \/ \E v \in LogLevelInputs : SetLogLevel(v)
    \/ \E ms \in ModulesInputs : SetModules(ms)
    \/ \E es \in TargetsInputs : SetTargets(es)

Spec == Init /\ [][Next]_vars

\* ------------------------------------------------------------- save, load
\* file_path.endswith(ext)
EndsWith(path, ext) == path[2] = ext

\* open(file_path, 'w'): what it raises
OpenWrite(path) == IF path \in ReadOnly THEN "PermissionError" ELSE "none"

\* open(file_path, 'r'): what it raises
OpenRead(fs, path) == IF fs[path] = <<>> THEN "FileNotFoundError" ELSE "none"

IOResult(e, opened, fs, made) ==
    [err |-> e, fields |-> {}, opened |-> opened, fs |-> fs, value |-> made]

\* save with the file opened before the extension is looked at
SaveOpenFirst(c, fs, path) ==
    IF OpenWrite(path) # "none" THEN IOResult(OpenWrite(path), FALSE, fs, <<>>)
    ELSE IF EndsWith(path, ".json")
    THEN IOResult("none", TRUE, [fs EXCEPT ![path] = <<ToJson(c)>>], <<>>)
    ELSE IF EndsWith(path, ".yaml")
    THEN IOResult("none", TRUE, [fs EXCEPT ![path] = <<ToYaml(c)>>], <<>>)
    ELSE IOResult("ValueError", TRUE, fs, <<>>)

\* save, lines 117-128: except logs and re-raises what was raised
Save(c, fs, path) ==
    IF EndsWith(path, ".json")
    THEN IF OpenWrite(path) # "none"
         THEN IOResult(OpenWrite(path), FALSE, fs, <<>>)
         ELSE IOResult("none", TRUE, [fs EXCEPT ![path] = <<ToJson(c)>>], <<>>)
    ELSE IF EndsWith(path, ".yaml")
    THEN IF OpenWrite(path) # "none"
         THEN IOResult(OpenWrite(path), FALSE, fs, <<>>)
         ELSE IOResult("none", TRUE, [fs EXCEPT ![path] = <<ToYaml(c)>>], <<>>)
    ELSE IOResult("ValueError", FALSE, fs, <<>>)

LoadWith(parsed, fs) ==
    LET r == FromParsed(parsed)
    IN  [err |-> r.err, fields |-> r.fields, opened |-> TRUE, fs |-> fs,
         value |-> r.value]

\* load, lines 133-146: except logs and re-raises what was raised
Load(fs, path) ==
    IF EndsWith(path, ".json")
    THEN IF OpenRead(fs, path) # "none"
         THEN IOResult(OpenRead(fs, path), FALSE, fs, <<>>)
         ELSE LoadWith(JsonLoad(fs[path][1]), fs)
    ELSE IF EndsWith(path, ".yaml")
    THEN IF OpenRead(fs, path) # "none"
         THEN IOResult(OpenRead(fs, path), FALSE, fs, <<>>)
         ELSE LoadWith(YamlSafeLoad(fs[path][1]), fs)
    ELSE IOResult("ValueError", FALSE, fs, <<>>)

\* --------------------------------------------- construction, as a function
Opt(S, absent) == {<<FALSE, absent>>} \cup {<<TRUE, v>> : v \in S}

EntryInputs ==
    {Entry("pair", <<"h">>, PortMin),
     Entry("dict", <<SP, "h">>, PortMax),
     Entry("pair", <<"h">>, PortMin - 1),
     Entry("pair", <<SP>>, PortMax + 1),
     Entry("other", <<>>, 0)}

EntryLists == UNION {[1..n -> EntryInputs] : n \in 0..MaxEntries}

Present(k, o) == IF o[1] THEN {k} ELSE {}

Mappings ==
    {Mapping(Present("environment", e) \cup Present("scan_interval", v)
             \cup Present("modules", ms) \cup Present("log_level", l)
             \cup Present("targets", ts) \cup Present("verbose", x),
             e[2], v[2], ms[2], l[2], ts[2]) :
        e \in Opt(EnvironmentInputs, ""), v \in Opt(ScanInputs, 0),
        ms \in Opt({<<<<SP, "m">>>>, <<<<SP>>>>}, <<>>),
        l \in Opt({"DEBUG", "TRACE"}, ""), ts \in Opt(EntryLists, <<>>),
        x \in Opt({0}, 0)}

NoCall == [err |-> "none", fields |-> {}, value |-> <<>>]

InitCtor ==
    /\ input \in Mappings
    /\ cfg = <<>>
    /\ last = Last("none", NoCall, <<>>, 0, NoPath)
    /\ snap = <<>>
    /\ text = <<>>
    /\ again = <<>>
    /\ files = [p \in Paths |-> <<>>]

\* c = AgentConfig.from_dict(input)
Construct ==
    /\ last.op = "none"
    /\ LET r == FromDict(input)
       IN  /\ cfg' = r.value
           /\ last' = Last("from_dict", r, <<>>, 0, NoPath)
    /\ UNCHANGED <<input, snap, text, again, files>>

\* text = c.to_json()
ToJsonCall ==
    /\ last.op = "from_dict" /\ cfg # <<>>
    /\ text' = <<ToJson(cfg[1])>>
    /\ last' = Last("to_json", NoCall, <<>>, 0, NoPath)
    /\ UNCHANGED <<input, cfg, snap, again, files>>

\* text = c.to_yaml()
ToYamlCall ==
    /\ last.op = "from_dict" /\ cfg # <<>>
    /\ text' = <<ToYaml(cfg[1])>>
    /\ last' = Last("to_yaml", NoCall, <<>>, 0, NoPath)
    /\ UNCHANGED <<input, cfg, snap, again, files>>

\* again = AgentConfig.from_dict(json.loads(text))
Reconstruct ==
    /\ last.op = "to_json"
    /\ LET r == FromParsed(JsonLoad(text[1]))
       IN  /\ again' = r.value
           /\ last' = Last("from_dict_again", r, <<>>, 0, NoPath)
    /\ UNCHANGED <<input, cfg, snap, text, files>>

NextCtor == Construct \/ ToJsonCall \/ ToYamlCall \/ Reconstruct

SpecCtor == InitCtor /\ [][NextCtor]_vars

\* ------------------------------------------------------ files on the disk
\* texts another program left in a file: not well-formed; a list at the top
\* level; a scan_interval out of range; a target entry of three elements
Foreign(fmt) ==
    LET ok == Document(fmt, ModelValue(MainMapping, <<>>), Scalar("DEBUG"),
                       "array")
    IN  {[ok EXCEPT !.wellformed = FALSE],
         [ok EXCEPT !.top = "sequence"],
         [ok EXCEPT !.scan_interval = ScanMax + 1],
         [ok EXCEPT !.targets = <<[shape |-> "triple", host |-> <<"h">>,
                                   port |-> PortMin]>>]}

Format(path) == IF EndsWith(path, ".json") THEN "json" ELSE "yaml"

IOMappings ==
    {Mapping({"environment"}, "prod", 0, <<>>, "", <<>>),
     MainMapping,
     [MainMapping EXCEPT !.targets = <<Entry("pair", <<SP, "h">>, PortMax),
                                       Entry("dict", <<"g">>, PortMin)>>]}

InitIO ==
    /\ input = NoMapping
    /\ snap = <<>>
    /\ text = <<>>
    /\ again = <<>>
    /\ cfg \in {FromDict(M).value : M \in IOMappings}
    /\ last = Last("from_dict", Return(cfg[1]), <<>>, 0, NoPath)
    /\ files \in [Paths -> {<<>>} \cup {<<d>> : d \in Foreign("json") \cup Foreign("yaml")}]
    /\ \A p \in Paths : files[p] # <<>> => files[p][1].format = Format(p)

\* c.save(path)
SaveCall(path) ==
    /\ cfg # <<>>
    /\ LET r == Save(cfg[1], files, path)
       IN  /\ files' = r.fs
           /\ last' = [Last("save", r, <<>>, 0, path) EXCEPT !.opened = r.opened]
    /\ UNCHANGED <<input, cfg, snap, text, again>>

\* again = AgentConfig.load(path); `after` tells a load that directly
\* follows a save of the same path that returned
LoadCall(path) ==
    /\ LET r == Load(files, path)
       IN  /\ again' = r.value
           /\ last' = [Last("load", r, <<>>, 0, path) EXCEPT
                          !.opened = r.opened,
                          !.after = IF last.op = "save" /\ last.err = "none"
                                       /\ last.path = path
                                    THEN "save" ELSE ""]
    /\ UNCHANGED <<input, cfg, snap, text, files>>

NextIO ==
    \/ \E path \in Paths : SaveCall(path)
    \/ \E path \in Paths : LoadCall(path)

SpecIO == InitIO /\ [][NextIO]_vars

\* ---------------------------------------------------------------- claims
ValidTarget(t) ==
    /\ t.host # <<>>
    /\ Strip(t.host) = t.host
    /\ t.port >= 1 /\ t.port <= 65535

ValidConfig(c) ==
    /\ c.environment \in EnvironmentValues
    /\ c.scan_interval >= 1 /\ c.scan_interval <= 86400
    /\ \A i \in 1..Len(c.modules) :
          c.modules[i] # <<>> /\ Strip(c.modules[i]) = c.modules[i]
    /\ c.log_level.name \in LogLevelValues
    /\ \A i \in 1..Len(c.targets) : ValidTarget(c.targets[i])

\* C1: after from_dict and any sequence of add_target, remove_target and
\* field assignments, failed or not, the instance satisfies every field
\* constraint.
C1_AlwaysValid == \A i \in 1..Len(cfg) : ValidConfig(cfg[i])

\* C1 witness: a failed assignment after targets were added
C1_Witness ==
    /\ last.op = "set_targets" /\ last.err # "none"
    /\ cfg # <<>> /\ Len(cfg[1].targets) = MaxTargets

\* C2: a call that fails leaves every field of the instance, the targets
\* and their order included, as it was; a from_dict that fails returns no
\* instance.
C2_NoPartialApply ==
    [][last'.err # "none" => (cfg' = cfg /\ last'.made = 0)]_vars

\* C2 witness: add_target failed on an instance that holds targets
C2_Witness ==
    /\ last.op = "add_target" /\ last.err # "none"
    /\ cfg # <<>> /\ cfg[1].targets # <<>>

\* C5 as stated: add_target(h, p) followed by remove_target(h, p) gives the
\* targets list from before the add.
C5_Original ==
    (last.op = "remove_target" /\ snap # <<>>) => cfg[1].targets = snap[1]

\* C5 amended: after an accepted add_target(h, p), remove_target(h, p)
\* leaves the pre-add list without its targets equal to (h, p) when h is
\* trimmed, and the pre-add list followed by (strip(h), p) when h is not;
\* remove_target of an absent pair changes nothing and raises nothing.
C5_AddThenRemove ==
    [][last'.op = "remove_target" =>
         /\ last'.err = "none"
         /\ snap' # <<>> =>
              cfg'[1].targets =
                 IF Strip(last'.host) = last'.host
                 THEN RemoveFrom(snap'[1], last'.host, last'.port)
                 ELSE Append(snap'[1], [host |-> Strip(last'.host),
                                        port |-> last'.port])
         /\ (\A i \in 1..Len(cfg[1].targets) :
                ~(cfg[1].targets[i].host = last'.host
                  /\ cfg[1].targets[i].port = last'.port))
              => cfg'[1].targets = cfg[1].targets]_vars

\* C5 witness: remove_target directly after add_target of an untrimmed host
C5_Witness ==
    /\ last.op = "remove_target" /\ snap # <<>>
    /\ Strip(last.host) # last.host
    /\ cfg[1].targets # snap[1]

\* Python's == on two instances: field by field; a str-mixin enum member
\* equals its value, so log_level compares by name.
PyEq(a, b) ==
    /\ a.environment = b.environment
    /\ a.scan_interval = b.scan_interval
    /\ a.modules = b.modules
    /\ a.log_level.name = b.log_level.name
    /\ a.targets = b.targets

\* C3: from_dict(M).to_json(), parsed as JSON and given to from_dict, gives
\* an instance equal to from_dict(M) in all five fields, targets in order.
C3_JsonRoundTrip ==
    last.op = "from_dict_again" =>
        /\ last.err = "none"
        /\ again # <<>> /\ PyEq(again[1], cfg[1])

\* C3 witness: a round trip of defaults and of a host that was stripped
C3_Witness ==
    /\ last.op = "from_dict_again"
    /\ "log_level" \notin input.has
    /\ "targets" \in input.has /\ Len(input.targets) = MaxEntries
    /\ input.targets[1].host # Strip(input.targets[1].host)

\* C6 as stated: to_json and to_yaml both write every target as a
\* 2-element array [host, port], in the order of the targets field.
C6_Original ==
    text # <<>> =>
        /\ Len(text[1].targets) = Len(cfg[1].targets)
        /\ \A i \in 1..Len(text[1].targets) :
              /\ text[1].targets[i].shape = "array"
              /\ text[1].targets[i].host = cfg[1].targets[i].host
              /\ text[1].targets[i].port = cfg[1].targets[i].port

\* the keys of a mapping whose value the data model refuses
EntryInvalid(e) ==
    \/ e.shape \notin {"pair", "dict"}
    \/ Strip(e.host) = <<>>
    \/ e.port < 1 \/ e.port > 65535

InvalidKeys(M) ==
    {k \in M.has :
        \/ k = "environment" /\ M.environment \notin EnvironmentValues
        \/ k = "scan_interval" /\ (M.scan_interval < 1 \/ M.scan_interval > 86400)
        \/ k = "modules" /\ \E i \in 1..Len(M.modules) : Strip(M.modules[i]) = <<>>
        \/ k = "log_level" /\ M.log_level \notin LogLevelValues
        \/ k = "targets" /\ \E i \in 1..Len(M.targets) : EntryInvalid(M.targets[i])
        \/ k \notin Keys}
    \cup ({"environment"} \ M.has)

Names(fields, k) ==
    k \in fields \/ (k = "targets" /\ fields \cap {"host", "port"} # {})

\* C8 as stated: a mapping with several invalid fields fails with one
\* ValidationError that names every failing field.
C8_Original ==
    (last.op = "from_dict" /\ Cardinality(InvalidKeys(input)) >= 2) =>
        /\ last.err = "ValidationError"
        /\ \A k \in InvalidKeys(input) : Names(last.fields, k)

\* C9: from_dict fails when scan_interval is outside [1, 86400] or a target
\* port is outside [1, 65535], and succeeds for scan_interval 1 and 86400
\* and ports 1 and 65535 when the rest of the mapping is valid.
C9_ExactRanges ==
    last.op = "from_dict" =>
        /\ ("scan_interval" \in input.has
            /\ (input.scan_interval < 1 \/ input.scan_interval > 86400))
              => last.err # "none"
        /\ ("targets" \in input.has
            /\ \E i \in 1..Len(input.targets) :
                  /\ input.targets[i].shape \in {"pair", "dict"}
                  /\ (input.targets[i].port < 1 \/ input.targets[i].port > 65535))
              => last.err # "none"
        /\ (/\ InvalidKeys(input) \ {"scan_interval", "targets"} = {}
            /\ "scan_interval" \in input.has
            /\ input.scan_interval \in {1, 86400}
            /\ "targets" \in input.has
            /\ \A i \in 1..Len(input.targets) :
                  /\ input.targets[i].shape \in {"pair", "dict"}
                  /\ Strip(input.targets[i].host) # <<>>
                  /\ input.targets[i].port \in {1, 65535})
              => (last.err = "none" /\ cfg # <<>>
                  /\ cfg[1].scan_interval = input.scan_interval)

\* C9 witness: both upper boundaries accepted in one mapping
C9_Witness ==
    /\ last.op = "from_dict" /\ last.err = "none"
    /\ "scan_interval" \in input.has /\ input.scan_interval = 86400
    /\ "targets" \in input.has /\ Len(input.targets) = MaxEntries
    /\ \E i \in 1..Len(input.targets) : input.targets[i].port = 65535
    /\ \E i \in 1..Len(input.targets) : input.targets[i].port = 1

\* C10 as stated: in an otherwise valid mapping, environment "dev", "qa" or
\* "prod" is accepted and stored as that string, and any other value, or no
\* environment key, fails with a ValidationError naming environment.
C10_Original ==
    (last.op = "from_dict" /\ InvalidKeys(input) \ {"environment"} = {}) =>
        IF "environment" \in input.has
           /\ input.environment \in {"dev", "qa", "prod"}
        THEN last.err = "none" /\ cfg # <<>>
             /\ cfg[1].environment = input.environment
        ELSE last.err = "ValidationError" /\ "environment" \in last.fields

\* C4 as stated: for every valid instance and every path ending in .json or
\* .yaml, save(path) followed by load(path) succeeds and returns an instance
\* equal in all fields, defaults included.
C4_Original ==
    (last.op = "load" /\ last.after = "save") =>
        /\ last.err = "none"
        /\ again # <<>> /\ PyEq(again[1], cfg[1])

\* why a call of save or load failed, read off the path and the file
Unsupported(path) == path[2] \notin {".json", ".yaml"}

CannotOpen(op, path) ==
    /\ ~Unsupported(path)
    /\ IF op = "save" THEN path \in ReadOnly ELSE files[path] = <<>>

BadSyntax(op, path) ==
    /\ op = "load" /\ ~Unsupported(path) /\ files[path] # <<>>
    /\ \/ ~files[path][1].wellformed
       \/ files[path][1].log_level.tag # "str"

BadContent(op, path) ==
    /\ op = "load" /\ ~Unsupported(path) /\ files[path] # <<>>
    /\ ~BadSyntax(op, path)

Failed == last.op \in {"save", "load"} /\ last.err # "none"

\* the class save raises for an extension it does not support
UnsupportedClass == Save(cfg[1], files, <<"config", ".csv">>).err

====
